---- MODULE Spec2Model ----
(***************************************************************************)
(* Model of backend/main.py: the geometry helper calculate_angle, the two  *)
(* rule evaluators check_squat_rules and check_sitting_rules, and the two  *)
(* request handlers analyze_video and analyze_frame with their temp files. *)
(*                                                                         *)
(* Coordinates are normalised image coordinates on a grid: the integer k   *)
(* stands for the float k / Scale, so 1.0 is Scale.  Angles are kept       *)
(* exactly, as the pair (dot product, |cross product|) of the two arms.    *)
(***************************************************************************)
EXTENDS Integers, Sequences, FiniteSets, TLC

\* ------------------------------------------------------------------ bounds
Scale == 3
MaxFrames == 12
ConcFrames == 5
NumPhases == 2
NumPaths == 2

\* ------------------------------------------------------- program constants
frame_skip == 5
BackAngleMin == 150
NeckAngleMax == 30
StraightAngle == 180
BackTolerance == 20
NumLandmarks == 33
LEFT_EAR == 7
LEFT_SHOULDER == 11
LEFT_HIP == 23
LEFT_KNEE == 25
LEFT_ANKLE == 27
LEFT_FOOT_INDEX == 31

\* A coordinate that is not a number (Python None): a value no grid
\* coordinate and no difference of grid coordinates takes.
None == -1000

Coords == 0..Scale
Tracked == {LEFT_EAR, LEFT_SHOULDER, LEFT_HIP, LEFT_KNEE, LEFT_ANKLE, LEFT_FOOT_INDEX}

VARIABLES
  r_pc, r_activity, r_lm, r_out,          \* one call of a rule evaluator
  pc, kind, activity, upload, temp_path,  \* the requests
  cap, frame_idx, processed_idx, frame_results, response,
  fs                                      \* the temp directory: path -> content

rvars == <<r_pc, r_activity, r_lm, r_out>>
hvars == <<pc, kind, activity, upload, temp_path, cap, frame_idx,
           processed_idx, frame_results, response, fs>>
vars == <<r_pc, r_activity, r_lm, r_out, pc, kind, activity, upload,
          temp_path, cap, frame_idx, processed_idx, frame_results, response, fs>>

\* --------------------------------------------------------------- landmarks
\* A landmark set is the sequence results.pose_landmarks.landmark: len is its
\* length, pts its entries at the joints the rules look at.
Pt(x, y) == [x |-> x, y |-> y, visibility |-> Scale]

LandmarkSet(n, ear, shoulder, hip, knee, ankle, toe) ==
  LET all == (LEFT_EAR :> ear) @@ (LEFT_SHOULDER :> shoulder) @@ (LEFT_HIP :> hip)
             @@ (LEFT_KNEE :> knee) @@ (LEFT_ANKLE :> ankle) @@ (LEFT_FOOT_INDEX :> toe)
  IN [len |-> n, pts |-> [j \in {i \in Tracked : i < n} |-> all[j]]]

\* landmarks[i]: IndexError when i is past the end of the sequence.
HasIndex(lm, i) == i < lm.len /\ i \in DOMAIN lm.pts

IsNum(v) == v # None

\* ---------------------------------------------------------------- geometry
SinTable ==
  <<  17452, 34899, 52336, 69756, 87156, 104528, 121869, 139173, 156434, 173648,
      190809, 207912, 224951, 241922, 258819, 275637, 292372, 309017, 325568, 342020,
      358368, 374607, 390731, 406737, 422618, 438371, 453990, 469472, 484810, 500000,
      515038, 529919, 544639, 559193, 573576, 587785, 601815, 615661, 629320, 642788,
      656059, 669131, 681998, 694658, 707107, 719340, 731354, 743145, 754710, 766044,
      777146, 788011, 798636, 809017, 819152, 829038, 838671, 848048, 857167, 866025,
      874620, 882948, 891007, 898794, 906308, 913545, 920505, 927184, 933580, 939693,
      945519, 951057, 956305, 961262, 965926, 970296, 974370, 978148, 981627, 984808,
      987688, 990268, 992546, 994522, 996195, 997564, 998630, 999391, 999848, 1000000 >>

\* 10^6 * sin(d degrees) and 10^6 * cos(d degrees), d in 0..180
SinDeg(d) == IF d = 0 \/ d = 180 THEN 0
             ELSE IF d <= 90 THEN SinTable[d] ELSE SinTable[180 - d]
CosDeg(d) == IF d <= 90 THEN SinDeg(90 - d) ELSE 0 - SinDeg(d - 90)

AbsInt(v) == IF v < 0 THEN 0 - v ELSE v

\* calculate_angle(a, b, c) with a, b, c lists [x, y].  The result is
\*   kind "TypeError": an operand is not a number, the array arithmetic raises;
\*   kind "nan":       an arm has length zero, 0.0 / 0.0 gives nan (no raise);
\*   kind "angle":     arccos(dot / (|ba| |bc|)) in degrees, held as (c, s) =
\*                     (ba . bc, |ba x bc|), the angle being atan2(s, c).
calculate_angle(a, b, c) ==
  IF ~(IsNum(a[1]) /\ IsNum(a[2]) /\ IsNum(b[1]) /\ IsNum(b[2]) /\ IsNum(c[1]) /\ IsNum(c[2]))
  THEN [kind |-> "TypeError"]
  ELSE LET bax == a[1] - b[1]
           bay == a[2] - b[2]
           bcx == c[1] - b[1]
           bcy == c[2] - b[2]
       IN IF (bax = 0 /\ bay = 0) \/ (bcx = 0 /\ bcy = 0)
          THEN [kind |-> "nan"]
          ELSE [kind |-> "angle",
                c |-> bax * bcx + bay * bcy,
                s |-> AbsInt(bax * bcy - bay * bcx)]

\* angle >= d and angle > d for an angle in [0, 180] and an integer d.
AngleGE(ang, d) ==
  IF d <= 0 THEN TRUE
  ELSE IF d > 180 THEN FALSE
  ELSE IF d = 180 THEN ang.s = 0 /\ ang.c < 0
  ELSE ang.s * CosDeg(d) - ang.c * SinDeg(d) >= 0

AngleGT(ang, d) ==
  IF d < 0 THEN TRUE
  ELSE IF d >= 180 THEN FALSE
  ELSE IF d = 0 THEN ~(ang.s = 0 /\ ang.c > 0)
  ELSE ang.s * CosDeg(d) - ang.c * SinDeg(d) > 0

\* The float comparisons of the rules; every comparison with nan is False.
Less(ang, d) == ang.kind = "angle" /\ ~AngleGE(ang, d)
Greater(ang, d) == ang.kind = "angle" /\ AngleGT(ang, d)

\* the same without abs(): angle - m > t
AbsDiffGreaterNoAbs(ang, m, t) == Greater(ang, m + t)

\* abs(angle - m) > t
AbsDiffGreater(ang, m, t) == Greater(ang, m + t) \/ Less(ang, m - t)

\* int(angle): truncation of a non-negative float, the largest integer d
\* in lo..hi with angle >= d
RECURSIVE LargestDegree(_, _, _)
LargestDegree(ang, lo, hi) ==
  IF lo = hi THEN lo
  ELSE LET mid == (lo + hi + 1) \div 2
       IN IF AngleGE(ang, mid) THEN LargestDegree(ang, mid, hi)
          ELSE LargestDegree(ang, lo, mid - 1)

IntDeg(ang) == LargestDegree(ang, 0, 180)

\* --------------------------------------------------------- rule evaluators
KneeOverToe == [msg |-> "Left knee over toe"]
BackAngleTooSmall(ang) == [msg |-> "Back angle too small", deg |-> IntDeg(ang)]
NeckBendTooLarge(ang) == [msg |-> "Neck bend too large", deg |-> IntDeg(ang)]
BackNotStraight(ang) == [msg |-> "Back not straight", deg |-> IntDeg(ang)]

\* check_squat_rules with the back-angle rule under an elif: it is not
\* evaluated once the knee-over-toe rule has produced its issue.
SquatTryShortCircuit(lm) ==
  IF ~(HasIndex(lm, LEFT_KNEE) /\ HasIndex(lm, LEFT_ANKLE) /\ HasIndex(lm, LEFT_HIP)
       /\ HasIndex(lm, LEFT_SHOULDER) /\ HasIndex(lm, LEFT_FOOT_INDEX))
  THEN [issues |-> <<>>, exc |-> "IndexError"]
  ELSE LET left_knee == lm.pts[LEFT_KNEE]
           left_hip == lm.pts[LEFT_HIP]
           left_shoulder == lm.pts[LEFT_SHOULDER]
           left_toe == lm.pts[LEFT_FOOT_INDEX]
       IN IF ~(IsNum(left_knee.x) /\ IsNum(left_toe.x))
          THEN [issues |-> <<>>, exc |-> "TypeError"]
          ELSE IF left_knee.x > left_toe.x
          THEN [issues |-> <<KneeOverToe>>, exc |-> "none"]
          ELSE LET back_angle == calculate_angle(<<left_shoulder.x, left_shoulder.y>>,
                                                 <<left_hip.x, left_hip.y>>,
                                                 <<left_knee.x, left_knee.y>>)
               IN IF back_angle.kind = "TypeError"
                  THEN [issues |-> <<>>, exc |-> "TypeError"]
                  ELSE [issues |-> IF Less(back_angle, BackAngleMin)
                                   THEN <<BackAngleTooSmall(back_angle)>>
                                   ELSE <<>>,
                        exc |-> "none"]

\* The body of the try block of check_squat_rules: the issues list as it
\* stands when the block ends, and the exception that ended it ("none" when
\* the block ran to its end).
SquatTry(lm) ==
  IF ~(HasIndex(lm, LEFT_KNEE) /\ HasIndex(lm, LEFT_ANKLE) /\ HasIndex(lm, LEFT_HIP)
       /\ HasIndex(lm, LEFT_SHOULDER) /\ HasIndex(lm, LEFT_FOOT_INDEX))
  THEN [issues |-> <<>>, exc |-> "IndexError"]
  ELSE LET left_knee == lm.pts[LEFT_KNEE]
           left_hip == lm.pts[LEFT_HIP]
           left_shoulder == lm.pts[LEFT_SHOULDER]
           left_toe == lm.pts[LEFT_FOOT_INDEX]
       IN IF ~(IsNum(left_knee.x) /\ IsNum(left_toe.x))
          THEN [issues |-> <<>>, exc |-> "TypeError"]
          ELSE LET issues1 == IF left_knee.x > left_toe.x THEN <<KneeOverToe>> ELSE <<>>
                   back_angle == calculate_angle(<<left_shoulder.x, left_shoulder.y>>,
                                                 <<left_hip.x, left_hip.y>>,
                                                 <<left_knee.x, left_knee.y>>)
               IN IF back_angle.kind = "TypeError"
                  THEN [issues |-> issues1, exc |-> "TypeError"]
                  ELSE [issues |-> IF Less(back_angle, BackAngleMin)
                                   THEN Append(issues1, BackAngleTooSmall(back_angle))
                                   ELSE issues1,
                        exc |-> "none"]

\* The body of the try block of check_sitting_rules.
SittingTry(lm) ==
  IF ~(HasIndex(lm, LEFT_SHOULDER) /\ HasIndex(lm, LEFT_EAR) /\ HasIndex(lm, LEFT_HIP))
  THEN [issues |-> <<>>, exc |-> "IndexError"]
  ELSE LET left_shoulder == lm.pts[LEFT_SHOULDER]
           left_ear == lm.pts[LEFT_EAR]
           left_hip == lm.pts[LEFT_HIP]
       IN IF ~IsNum(left_shoulder.y)
          THEN [issues |-> <<>>, exc |-> "TypeError"]
          ELSE LET vertical == <<left_shoulder.x, left_shoulder.y - Scale>>
                   neck_angle == calculate_angle(<<left_shoulder.x, left_shoulder.y>>,
                                                 <<left_ear.x, left_ear.y>>,
                                                 vertical)
               IN IF neck_angle.kind = "TypeError"
                  THEN [issues |-> <<>>, exc |-> "TypeError"]
                  ELSE LET issues1 == IF Greater(neck_angle, NeckAngleMax)
                                      THEN <<NeckBendTooLarge(neck_angle)>> ELSE <<>>
                       IN IF ~IsNum(left_hip.y)
                          THEN [issues |-> issues1, exc |-> "TypeError"]
                          ELSE LET back_angle ==
                                     calculate_angle(<<left_shoulder.x, left_shoulder.y>>,
                                                     <<left_hip.x, left_hip.y>>,
                                                     <<left_hip.x, left_hip.y - Scale>>)
                               IN IF back_angle.kind = "TypeError"
                                  THEN [issues |-> issues1, exc |-> "TypeError"]
                                  ELSE [issues |->
                                          IF AbsDiffGreater(back_angle, StraightAngle, BackTolerance)
                                          THEN Append(issues1, BackNotStraight(back_angle))
                                          ELSE issues1,
                                        exc |-> "none"]

\* except TypeError: an IndexError passes through.
ExceptTypeError(exc) == exc = "TypeError"

\* except Exception: IndexError and TypeError are both caught.
ExceptException(exc) == exc \in {"IndexError", "TypeError"}

\* except ...: pass; return issues.  exc is the exception that escapes the
\* evaluator, "none" when it returns.
ReturnIssues(t) ==
  [issues |-> t.issues, exc |-> IF ExceptException(t.exc) THEN "none" ELSE t.exc]

check_squat_rules(lm) == ReturnIssues(SquatTry(lm))

check_sitting_rules(lm) == ReturnIssues(SittingTry(lm))

\* ------------------------------------------ inputs of the rule evaluators
GridPts == {Pt(x, y) : x \in Coords, y \in Coords}
Corner == Pt(0, 0)
NonePt == [x |-> None, y |-> None, visibility |-> Scale]

\* complete landmark sets, every coordinate a number
SquatGrid ==
  {LandmarkSet(NumLandmarks, Corner, sh, hip, knee, Corner, Pt(tx, Scale)) :
     sh \in GridPts, hip \in GridPts, knee \in GridPts, tx \in Coords}
SittingGrid ==
  {LandmarkSet(NumLandmarks, ear, sh, hip, Corner, Corner, Corner) :
     ear \in GridPts, sh \in GridPts, hip \in GridPts}

\* landmark sets on the corners of the grid, cut short or with one landmark
\* whose coordinates are not numbers
CornerPts == {Pt(x, y) : x \in {0, Scale}, y \in {0, Scale}}
CornerSets ==
  {LandmarkSet(NumLandmarks, ear, sh, hip, knee, Corner, Pt(tx, Scale)) :
     ear \in CornerPts, sh \in CornerPts, hip \in CornerPts, knee \in CornerPts,
     tx \in {0, Scale}}
Truncate(lm, n) == [len |-> n, pts |-> [j \in {i \in DOMAIN lm.pts : i < n} |-> lm.pts[j]]]
Corrupt(lm, j) == [lm EXCEPT !.pts[j] = NonePt]
ShortLens == {0, LEFT_EAR, LEFT_SHOULDER, LEFT_HIP, LEFT_KNEE, LEFT_ANKLE, LEFT_FOOT_INDEX}
ShortSets == {Truncate(lm, n) : lm \in CornerSets, n \in ShortLens}
CorruptSets == {Corrupt(lm, j) : lm \in CornerSets, j \in Tracked}

NoLandmarks == [len |-> 0, pts |-> <<>>]
NoOutput == [issues |-> <<>>, exc |-> "none"]

\* ------------------------------------------- one call of a rule evaluator
RInit ==
  /\ r_pc = "idle"
  /\ r_activity = "squat"
  /\ r_lm = NoLandmarks
  /\ r_out = NoOutput

CallSquat ==
  /\ r_pc = "idle"
  /\ \E lm \in SquatGrid \cup ShortSets \cup CorruptSets :
       /\ r_lm' = lm
       /\ r_out' = check_squat_rules(lm)
  /\ r_activity' = "squat"
  /\ r_pc' = "returned"
  /\ UNCHANGED hvars

CallSitting ==
  /\ r_pc = "idle"
  /\ \E lm \in SittingGrid \cup ShortSets \cup CorruptSets :
       /\ r_lm' = lm
       /\ r_out' = check_sitting_rules(lm)
  /\ r_activity' = "sitting"
  /\ r_pc' = "returned"
  /\ UNCHANGED hvars

\* ------------------------------------------------- uploads and detections
Requests == {1, 2}
Paths == 1..NumPaths
Activities == {"squat", "sitting", "plank"}

\* What pose.process finds in an image: no body, or the 33 landmarks of one.
NoBody == [body |-> FALSE]
Body(lm) == [body |-> TRUE, lm |-> lm]
KneeForward ==
  Body(LandmarkSet(NumLandmarks, Pt(1, 0), Pt(0, 0), Pt(0, 1), Pt(1, 1), Pt(1, 2), Pt(0, 2)))
Upright ==
  Body(LandmarkSet(NumLandmarks, Pt(1, 0), Pt(1, 1), Pt(1, 2), Pt(1, 3), Pt(1, 3), Pt(2, 3)))
PoseCycle == <<KneeForward, NoBody, Upright>>

Garbage == [type |-> "garbage"]
EmptyFile == [type |-> "empty"]
\* a video of n frames; frame i shows PoseCycle shifted by phase
VideoUploads(maxN) ==
  {[type |-> "video", n |-> n, phase |-> ph] : n \in 0..maxN, ph \in 0..(NumPhases - 1)}
  \cup {Garbage}
ImageUploads ==
  {[type |-> "image", det |-> d] : d \in {NoBody, KneeForward, Upright}} \cup {Garbage}
FrameOf(v, i) == PoseCycle[((i + v.phase) % Len(PoseCycle)) + 1]

\* ---------------------------------------------------------- the temp files
\* a temp name chosen without regard to the files that exist
NewTempNamesAny(files) == Paths

\* tempfile.NamedTemporaryFile(delete=False): a name no existing file has.
NewTempNames(files) == Paths \ DOMAIN files

CreateFile(files, p) == [q \in DOMAIN files \cup {p} |-> IF q = p THEN EmptyFile ELSE files[q]]
\* temp.write(data) through the open handle
WriteFile(files, p, data) == IF p \in DOMAIN files THEN [files EXCEPT ![p] = data] ELSE files
\* os.remove(path)
RemoveFile(files, p) == [q \in DOMAIN files \ {p} |-> files[q]]

\* cv2.VideoCapture(path): opened iff the file holds a decodable video
VideoCapture(files, p) ==
  IF p \in DOMAIN files /\ files[p].type = "video"
  THEN [opened |-> TRUE, stream |-> files[p], pos |-> 0]
  ELSE [opened |-> FALSE, stream |-> Garbage, pos |-> 0]
NoCapture == [opened |-> FALSE, stream |-> Garbage, pos |-> 0]

\* cv2.imread(path): the image, or None when the file cannot be decoded
ImRead(files, p) ==
  IF p \in DOMAIN files /\ files[p].type = "image"
  THEN [ok |-> TRUE, det |-> files[p].det]
  ELSE [ok |-> FALSE]

NoKeypoints == [len |-> 0, pts |-> <<>>]

\* the keypoints list left as it was initialised
KeypointsUnfilled(lm) == NoKeypoints

\* the list built by `for lm in landmarks: keypoints.append({...})`
Keypoints(lm) ==
  [len |-> lm.len,
   pts |-> [j \in DOMAIN lm.pts |->
              [x |-> lm.pts[j].x, y |-> lm.pts[j].y, visibility |-> lm.pts[j].visibility]]]

\* analyze_video, from pose.process to the dict appended for one frame
VideoFrameResult(det, act, idx) ==
  LET out == IF ~det.body THEN NoOutput
             ELSE IF act = "squat" THEN check_squat_rules(det.lm)
             ELSE IF act = "sitting" THEN check_sitting_rules(det.lm)
             ELSE NoOutput
  IN [frame |-> idx,
      issues |-> out.issues,
      keypoints |-> IF det.body THEN Keypoints(det.lm) ELSE NoKeypoints,
      exc |-> out.exc]

\* analyze_frame with the squat rules as the fallback of the dispatch
FrameResponseSquatDefault(det, act) ==
  LET out == IF ~det.body THEN NoOutput
             ELSE IF act = "sitting" THEN check_sitting_rules(det.lm)
             ELSE check_squat_rules(det.lm)
  IN [issues |-> out.issues,
      keypoints |-> IF det.body THEN Keypoints(det.lm) ELSE NoKeypoints,
      exc |-> out.exc]

\* analyze_frame, from pose.process to the returned dict
FrameResponse(det, act) ==
  LET out == IF ~det.body THEN NoOutput
             ELSE IF act = "squat" THEN check_squat_rules(det.lm)
             ELSE IF act = "sitting" THEN check_sitting_rules(det.lm)
             ELSE NoOutput
  IN [issues |-> out.issues,
      keypoints |-> IF det.body THEN Keypoints(det.lm) ELSE NoKeypoints,
      exc |-> out.exc]

Strip(res) == [f \in DOMAIN res \ {"exc"} |-> res[f]]
NoResponse == [none |-> TRUE]

\* frame_idx counted from 1
SkippedFromOne(idx) == (idx + 1) % frame_skip # 0

\* if frame_idx % frame_skip != 0: the frame is not analysed
Skipped(idx) == idx % frame_skip # 0

\* ------------------------------------------------------------ the handlers
HInit ==
  /\ pc = [r \in Requests |-> "idle"]
  /\ kind = [r \in Requests |-> "none"]
  /\ activity = [r \in Requests |-> "squat"]
  /\ upload = [r \in Requests |-> EmptyFile]
  /\ temp_path = [r \in Requests |-> 0]
  /\ cap = [r \in Requests |-> NoCapture]
  /\ frame_idx = [r \in Requests |-> 0]
  /\ processed_idx = [r \in Requests |-> 0]
  /\ frame_results = [r \in Requests |-> <<>>]
  /\ response = [r \in Requests |-> NoResponse]
  /\ fs = <<>>

Init == RInit /\ HInit

\* A request arrives: the handler creates its temp file and suspends at
\* `await file.read()`.
Receive(r, k, uploads) ==
  /\ pc[r] = "idle"
  /\ \E act \in Activities, data \in uploads, p \in NewTempNames(fs) :
       /\ kind' = [kind EXCEPT ![r] = k]
       /\ activity' = [activity EXCEPT ![r] = act]
       /\ upload' = [upload EXCEPT ![r] = data]
       /\ temp_path' = [temp_path EXCEPT ![r] = p]
       /\ fs' = CreateFile(fs, p)
  /\ pc' = [pc EXCEPT ![r] = "await"]
  /\ UNCHANGED <<cap, frame_idx, processed_idx, frame_results, response>>
  /\ UNCHANGED rvars

ReceiveVideo(r, maxN) == Receive(r, "video", VideoUploads(maxN))

ReceiveFrame(r) == Receive(r, "frame", ImageUploads)

\* temp.write(await file.read()); temp_path = temp.name; the file is closed.
WriteUpload(r) ==
  /\ pc[r] = "await"
  /\ fs' = WriteFile(fs, temp_path[r], upload[r])
  /\ pc' = [pc EXCEPT ![r] = "staged"]
  /\ UNCHANGED <<kind, activity, upload, temp_path, cap, frame_idx, processed_idx,
                 frame_results, response>>
  /\ UNCHANGED rvars

\* analyze_video: cap = cv2.VideoCapture(temp_path) ... frame_skip = 5
OpenVideo(r) ==
  /\ pc[r] = "staged"
  /\ kind[r] = "video"
  /\ cap' = [cap EXCEPT ![r] = VideoCapture(fs, temp_path[r])]
  /\ frame_results' = [frame_results EXCEPT ![r] = <<>>]
  /\ frame_idx' = [frame_idx EXCEPT ![r] = 0]
  /\ processed_idx' = [processed_idx EXCEPT ![r] = 0]
  /\ pc' = [pc EXCEPT ![r] = "loop"]
  /\ UNCHANGED <<kind, activity, upload, temp_path, response, fs>>
  /\ UNCHANGED rvars

\* analyze_video: one iteration of the while loop in which cap.read() gives
\* a frame.
LoopBody(r) ==
  /\ pc[r] = "loop"
  /\ cap[r].opened
  /\ cap[r].pos < cap[r].stream.n
  /\ cap' = [cap EXCEPT ![r].pos = @ + 1]
  /\ IF Skipped(frame_idx[r])
     THEN /\ frame_idx' = [frame_idx EXCEPT ![r] = @ + 1]
          /\ UNCHANGED <<pc, processed_idx, frame_results>>
     ELSE LET res == VideoFrameResult(FrameOf(cap[r].stream, cap[r].pos),
                                      activity[r], frame_idx[r])
          IN IF res.exc # "none"
             THEN /\ pc' = [pc EXCEPT ![r] = "raised"]
                  /\ UNCHANGED <<frame_idx, processed_idx, frame_results>>
             ELSE /\ frame_results' = [frame_results EXCEPT ![r] = Append(@, Strip(res))]
                  /\ frame_idx' = [frame_idx EXCEPT ![r] = @ + 1]
                  /\ processed_idx' = [processed_idx EXCEPT ![r] = @ + 1]
                  /\ UNCHANGED pc
  /\ UNCHANGED <<kind, activity, upload, temp_path, response, fs>>
  /\ UNCHANGED rvars

\* analyze_video: the loop ends (capture not opened, or cap.read() gives no
\* frame); cap.release(); os.remove(temp_path); return.
VideoReturn(r) ==
  /\ pc[r] = "loop"
  /\ ~(cap[r].opened /\ cap[r].pos < cap[r].stream.n)
  /\ cap' = [cap EXCEPT ![r].opened = FALSE]
  /\ IF temp_path[r] \in DOMAIN fs
     THEN /\ fs' = RemoveFile(fs, temp_path[r])
          /\ response' = [response EXCEPT ![r] = [frames |-> frame_results[r]]]
          /\ pc' = [pc EXCEPT ![r] = "done"]
     ELSE /\ pc' = [pc EXCEPT ![r] = "raised"]
          /\ UNCHANGED <<fs, response>>
  /\ UNCHANGED <<kind, activity, upload, temp_path, frame_idx, processed_idx, frame_results>>
  /\ UNCHANGED rvars

\* analyze_frame from cv2.imread to the return: cv2.cvtColor raises on the
\* None that imread gives for an undecodable file, and os.remove is not
\* reached.
FrameAnalyze(r) ==
  /\ pc[r] = "staged"
  /\ kind[r] = "frame"
  /\ LET image == ImRead(fs, temp_path[r])
     IN IF ~image.ok
        THEN /\ pc' = [pc EXCEPT ![r] = "raised"]
             /\ UNCHANGED <<fs, response>>
        ELSE LET res == FrameResponse(image.det, activity[r])
             IN IF res.exc # "none" \/ temp_path[r] \notin DOMAIN fs
                THEN /\ pc' = [pc EXCEPT ![r] = "raised"]
                     /\ UNCHANGED <<fs, response>>
                ELSE /\ fs' = RemoveFile(fs, temp_path[r])
                     /\ response' = [response EXCEPT ![r] = Strip(res)]
                     /\ pc' = [pc EXCEPT ![r] = "done"]
  /\ UNCHANGED <<kind, activity, upload, temp_path, cap, frame_idx, processed_idx,
                 frame_results>>
  /\ UNCHANGED rvars

\* ----------------------------------------------------------- specifications
Step(r) == WriteUpload(r) \/ OpenVideo(r) \/ LoopBody(r) \/ VideoReturn(r) \/ FrameAnalyze(r)

\* one request at a time
Next ==
  \/ ReceiveVideo(1, MaxFrames)
  \/ ReceiveFrame(1)
  \/ Step(1)

Spec == Init /\ [][Next]_vars

\* a handler that has been entered runs on: the event loop resumes it once
\* the upload has been read, and nothing else blocks it
FairSpec == Spec /\ WF_vars(Step(1))

\* two requests interleaved
NextConc ==
  \E r \in Requests :
    \/ ReceiveVideo(r, ConcFrames)
    \/ ReceiveFrame(r)
    \/ Step(r)

SpecConc == Init /\ [][NextConc]_vars

\* the rule evaluators as functions of a landmark set
NextRules == CallSquat \/ CallSitting

SpecRules == Init /\ [][NextRules]_vars

\* ================================================================= claims
Msgs(issues) == [k \in 1..Len(issues) |-> issues[k].msg]
HasMsg(issues, m) == \E k \in 1..Len(issues) : issues[k].msg = m
Complete(lm) == lm.len = NumLandmarks
Numeric(lm) == \A j \in DOMAIN lm.pts : IsNum(lm.pts[j].x) /\ IsNum(lm.pts[j].y)
IsVideo(r) == kind[r] = "video" /\ upload[r].type = "video"
IsImage(r) == kind[r] = "frame" /\ upload[r].type = "image"

\* ---- C1 ----------------------------------------------------------------
\* The frame indices 0, 5, 10, ... below n, in ascending order.
Multiples(n) == [k \in 1..((n + 4) \div 5) |-> 5 * (k - 1)]
FrameIndices(frs) == [k \in 1..Len(frs) |-> frs[k].frame]

SampledSoFar(r) ==
  /\ Len(frame_results[r]) <= Len(Multiples(upload[r].n))
  /\ \A k \in 1..Len(frame_results[r]) : frame_results[r][k].frame = 5 * (k - 1)

SampledAtReturn(r) == FrameIndices(response[r].frames) = Multiples(upload[r].n)

\* C1: on a video of n frames analyze_video always reaches its return, and
\* the frames it returns are exactly those with index 0, 5, 10, ... below n,
\* once each and in ascending order; while it runs, the results gathered so
\* far are a prefix of that list.
C1_EveryFifthFrame ==
  /\ [](\A r \in Requests :
          /\ (IsVideo(r) /\ pc[r] \in {"loop", "done"}) => SampledSoFar(r)
          /\ (IsVideo(r) /\ pc[r] = "done") => SampledAtReturn(r))
  /\ \A r \in Requests : (pc[r] = "loop") ~> (pc[r] = "done")

C1_Witness ==
  /\ pc[1] = "done"
  /\ IsVideo(1)
  /\ upload[1].n = 12
  /\ FrameIndices(response[1].frames) = <<0, 5, 10>>

\* ---- C2 ----------------------------------------------------------------
Ended(r) == pc[r] \in {"done", "raised"}

\* C2: no handler execution ends, by return or by exception, with its temp
\* file still existing.
C2_TempFileRemovedOnEveryExit ==
  \A r \in Requests : Ended(r) => temp_path[r] \notin DOMAIN fs

\* ---- C3 ----------------------------------------------------------------
KeypointsIffBody(res, det) ==
  /\ (res.keypoints.len = 0) <=> ~det.body
  /\ (res.keypoints.len = 0) => (res.issues = <<>>)

\* C3: in the result of analyze_frame and in every frame result of
\* analyze_video, keypoints is empty iff the pose service found no body in
\* that image or frame, and issues is empty whenever keypoints is.
C3_KeypointsEmptyIffNoBody ==
  \A r \in Requests :
    /\ (IsImage(r) /\ pc[r] = "done") => KeypointsIffBody(response[r], upload[r].det)
    /\ IsVideo(r) =>
         \A k \in 1..Len(frame_results[r]) :
           KeypointsIffBody(frame_results[r][k],
                            FrameOf(upload[r], frame_results[r][k].frame))
    /\ (IsVideo(r) /\ pc[r] = "done") =>
         \A k \in 1..Len(response[r].frames) :
           KeypointsIffBody(response[r].frames[k],
                            FrameOf(upload[r], response[r].frames[k].frame))

C3_Witness ==
  /\ pc[1] = "done"
  /\ IsVideo(1)
  /\ activity[1] = "squat"
  /\ \E k \in 1..Len(response[1].frames) :
       response[1].frames[k].keypoints.len = 0 /\ response[1].frames[k].issues = <<>>
  /\ \E k \in 1..Len(response[1].frames) :
       response[1].frames[k].keypoints.len = NumLandmarks
       /\ response[1].frames[k].issues # <<>>

\* ---- C4 ----------------------------------------------------------------
Required(act) ==
  IF act = "squat"
  THEN {LEFT_KNEE, LEFT_ANKLE, LEFT_HIP, LEFT_SHOULDER, LEFT_FOOT_INDEX}
  ELSE {LEFT_SHOULDER, LEFT_EAR, LEFT_HIP}
LookupFails(act, lm) == \E j \in Required(act) : j >= lm.len

\* C4: when a landmark the activity requires cannot be looked up, the
\* evaluator returns an empty issue list and no exception escapes it.
C4_MissingLandmarkGivesNoIssues ==
  (r_pc = "returned" /\ LookupFails(r_activity, r_lm))
    => (r_out.issues = <<>> /\ r_out.exc = "none")

C4_Witness ==
  /\ r_pc = "returned"
  /\ r_activity = "squat"
  /\ r_lm.len = LEFT_ANKLE
  /\ r_lm.pts[LEFT_KNEE].x > 0
  /\ r_out = NoOutput

\* ---- C5 ----------------------------------------------------------------
\* the lookups and the knee/toe comparison succeed, and a calculate_angle
\* call of the evaluator raises
GeometryRaises(act, lm) ==
  /\ ~LookupFails(act, lm)
  /\ IF act = "squat"
     THEN /\ IsNum(lm.pts[LEFT_KNEE].x) /\ IsNum(lm.pts[LEFT_FOOT_INDEX].x)
          /\ \E j \in {LEFT_SHOULDER, LEFT_HIP, LEFT_KNEE} :
               ~IsNum(lm.pts[j].x) \/ ~IsNum(lm.pts[j].y)
     ELSE \E j \in {LEFT_SHOULDER, LEFT_EAR, LEFT_HIP} :
               ~IsNum(lm.pts[j].x) \/ ~IsNum(lm.pts[j].y)

\* C5: when the geometry computation raises, the evaluator returns an empty
\* issue list: no issue of an earlier rule of the same call is in it.
C5_GeometryFailureGivesNoIssues ==
  (r_pc = "returned" /\ GeometryRaises(r_activity, r_lm)) => r_out.issues = <<>>

\* ---- C6 ----------------------------------------------------------------
UnknownActivity(r) == activity[r] \notin {"squat", "sitting"}

\* C6: with an activity other than "squat" and "sitting", a handler given
\* decodable media returns without error, every issues list it returns is
\* empty, and the keypoints of every detected body are returned.
C6_UnknownActivityGivesNoIssues ==
  \A r \in Requests :
    UnknownActivity(r) =>
      /\ (pc[r] = "raised") => (kind[r] = "frame" /\ upload[r] = Garbage)
      /\ (IsImage(r) /\ pc[r] = "done") =>
           /\ response[r].issues = <<>>
           /\ upload[r].det.body => response[r].keypoints = Keypoints(upload[r].det.lm)
      /\ (IsVideo(r) /\ pc[r] = "done") =>
           \A k \in 1..Len(response[r].frames) :
             LET f == response[r].frames[k]
                 det == FrameOf(upload[r], f.frame)
             IN /\ f.issues = <<>>
                /\ det.body => f.keypoints = Keypoints(det.lm)

C6_Witness ==
  /\ pc[1] = "done"
  /\ IsVideo(1)
  /\ activity[1] = "plank"
  /\ Len(response[1].frames) = 3
  /\ response[1].frames[1].keypoints = Keypoints(KneeForward.lm)
  /\ check_squat_rules(KneeForward.lm).issues # <<>>
  /\ response[1].frames[1].issues = <<>>

\* ---- C7 ----------------------------------------------------------------
EarAboveShoulder(lm) ==
  /\ lm.pts[LEFT_EAR].x = lm.pts[LEFT_SHOULDER].x
  /\ lm.pts[LEFT_EAR].y < lm.pts[LEFT_SHOULDER].y

\* C7: with the left ear directly above the left shoulder (same x, smaller
\* y) check_sitting_rules reports no "Neck bend too large" issue.
C7_EarAboveShoulderNoNeckIssue ==
  (r_pc = "returned" /\ r_activity = "sitting" /\ Complete(r_lm) /\ Numeric(r_lm)
     /\ EarAboveShoulder(r_lm))
    => ~HasMsg(r_out.issues, "Neck bend too large")

\* ---- C8 ----------------------------------------------------------------
SqNorm(x, y) == x * x + y * y
\* the shoulder-hip-knee angle is below 150 degrees: its cosine is above
\* -sqrt(3)/2
BackBelow150(lm) ==
  LET sx == lm.pts[LEFT_SHOULDER].x - lm.pts[LEFT_HIP].x
      sy == lm.pts[LEFT_SHOULDER].y - lm.pts[LEFT_HIP].y
      kx == lm.pts[LEFT_KNEE].x - lm.pts[LEFT_HIP].x
      ky == lm.pts[LEFT_KNEE].y - lm.pts[LEFT_HIP].y
      dot == sx * kx + sy * ky
  IN dot >= 0 \/ 4 * dot * dot < 3 * SqNorm(sx, sy) * SqNorm(kx, ky)
NonDegenerateSquat(lm) ==
  /\ lm.pts[LEFT_SHOULDER].x # lm.pts[LEFT_HIP].x \/ lm.pts[LEFT_SHOULDER].y # lm.pts[LEFT_HIP].y
  /\ lm.pts[LEFT_KNEE].x # lm.pts[LEFT_HIP].x \/ lm.pts[LEFT_KNEE].y # lm.pts[LEFT_HIP].y
ExpectedSquatMsgs(lm) ==
  (IF lm.pts[LEFT_KNEE].x > lm.pts[LEFT_FOOT_INDEX].x THEN <<"Left knee over toe">> ELSE <<>>)
  \o (IF BackBelow150(lm) THEN <<"Back angle too small">> ELSE <<>>)
RightAngleExample(lm) ==
  /\ lm.pts[LEFT_SHOULDER].x = 0 /\ lm.pts[LEFT_SHOULDER].y = 0
  /\ lm.pts[LEFT_HIP].x = 0 /\ lm.pts[LEFT_HIP].y = 1
  /\ lm.pts[LEFT_KNEE].x = 1 /\ lm.pts[LEFT_KNEE].y = 1

\* C8: with every required landmark present and no zero-length arm, the
\* squat evaluator returns exactly the rules whose condition holds, in
\* declaration order: "Left knee over toe" iff knee.x > toe.x, then "Back
\* angle too small" iff the shoulder-hip-knee angle is below 150 degrees,
\* each decided independently of the other; shoulder (0,0), hip (0,1), knee
\* (1,1) gives the angle 90 in the message.
C8_SquatRulesIndependentAndOrdered ==
  (r_pc = "returned" /\ r_activity = "squat" /\ Complete(r_lm) /\ Numeric(r_lm)
     /\ NonDegenerateSquat(r_lm))
    => /\ r_out.exc = "none"
       /\ Msgs(r_out.issues) = ExpectedSquatMsgs(r_lm)
       /\ RightAngleExample(r_lm) => r_out.issues[Len(r_out.issues)].deg = 90

C8_Witness ==
  /\ r_pc = "returned"
  /\ r_activity = "squat"
  /\ Complete(r_lm) /\ Numeric(r_lm) /\ NonDegenerateSquat(r_lm)
  /\ RightAngleExample(r_lm)
  /\ r_out.issues = <<[msg |-> "Left knee over toe"],
                      [msg |-> "Back angle too small", deg |-> 90]>>

\* ---- C9 ----------------------------------------------------------------
InFlight(r) == pc[r] \in {"await", "staged", "loop"}

\* what a request returns when it runs alone
Alone(k, act, data) ==
  IF k = "frame"
  THEN Strip(FrameResponse(data.det, act))
  ELSE IF data.type = "video"
       THEN [frames |-> [i \in 1..((data.n + 4) \div 5) |->
                           Strip(VideoFrameResult(FrameOf(data, 5 * (i - 1)), act, 5 * (i - 1)))]]
       ELSE [frames |-> <<>>]
RaisesAlone(k, data) == k = "frame" /\ data.type # "image"

OwnTempFiles ==
  \A r \in Requests :
    /\ InFlight(r) =>
         /\ temp_path[r] \in DOMAIN fs
         /\ \A q \in Requests \ {r} : InFlight(q) => temp_path[q] # temp_path[r]
    /\ pc[r] = "staged" => fs[temp_path[r]] = upload[r]
    /\ (pc[r] = "loop" /\ upload[r].type = "video") =>
         (cap[r].opened /\ cap[r].stream = upload[r])
    /\ pc[r] = "done" =>
         (~RaisesAlone(kind[r], upload[r])
          /\ response[r] = Alone(kind[r], activity[r], upload[r]))
    /\ pc[r] = "raised" => RaisesAlone(kind[r], upload[r])

\* a step changes or removes only the temp file of the request that takes it
TouchesOwnFileOnly ==
  \A p \in DOMAIN fs :
    (p \notin DOMAIN fs' \/ fs'[p] # fs[p])
      => \E r \in Requests : pc'[r] # pc[r] /\ temp_path[r] = p

\* C9: interleaved requests share no state: each writes, reads and removes
\* only the temp file it created, and what it returns is what it would
\* return running alone.
C9_RequestsIsolated == []OwnTempFiles /\ [][TouchesOwnFileOnly]_vars

C9_Witness ==
  /\ pc[1] = "loop" /\ IsVideo(1) /\ Len(frame_results[1]) = 1
  /\ pc[2] = "loop" /\ IsVideo(2) /\ Len(frame_results[2]) = 1
  /\ activity[1] # activity[2]
  /\ upload[1] # upload[2]

\* ---- C10 ---------------------------------------------------------------
ShoulderAboveHip(lm) ==
  /\ lm.pts[LEFT_SHOULDER].x = lm.pts[LEFT_HIP].x
  /\ lm.pts[LEFT_SHOULDER].y < lm.pts[LEFT_HIP].y
ShoulderOnHip(lm) ==
  /\ lm.pts[LEFT_SHOULDER].x = lm.pts[LEFT_HIP].x
  /\ lm.pts[LEFT_SHOULDER].y = lm.pts[LEFT_HIP].y
\* the shoulder lies within 20 degrees of straight below the hip
WithinTwentyBelow(lm) ==
  LET dx == AbsInt(lm.pts[LEFT_SHOULDER].x - lm.pts[LEFT_HIP].x)
      dy == lm.pts[LEFT_SHOULDER].y - lm.pts[LEFT_HIP].y
  IN dy > 0 /\ dx * CosDeg(20) <= dy * SinDeg(20)
SittingCase == r_pc = "returned" /\ r_activity = "sitting" /\ Complete(r_lm) /\ Numeric(r_lm)

\* C10 as stated: a shoulder directly above the hip gets "Back not
\* straight", and no such issue is reported only when the shoulder lies
\* within 20 degrees of straight below the hip.
C10_Original ==
  SittingCase =>
    /\ ShoulderAboveHip(r_lm) => HasMsg(r_out.issues, "Back not straight")
    /\ ~HasMsg(r_out.issues, "Back not straight") => WithinTwentyBelow(r_lm)

\* C10 amended: "Back not straight" is reported iff the shoulder neither
\* lies within 20 degrees of straight below the hip nor coincides with the
\* hip (nan angle, every comparison False); a shoulder directly above the
\* hip is reported with the angle 0.
C10_BackStraightOnlyBelowHip ==
  SittingCase =>
    /\ HasMsg(r_out.issues, "Back not straight")
         <=> ~(WithinTwentyBelow(r_lm) \/ ShoulderOnHip(r_lm))
    /\ ShoulderAboveHip(r_lm) =>
         r_out.issues[Len(r_out.issues)] = [msg |-> "Back not straight", deg |-> 0]

C10_Witness ==
  /\ SittingCase
  /\ ShoulderAboveHip(r_lm)
  /\ HasMsg(r_out.issues, "Back not straight")

====
